---- MODULE Spec2Model ----
(***************************************************************************)
(* Model of src/dpf_model.py: the DPF rate model (predict_dpf_state), the  *)
(* lifecycle sweep (simulate_vehicle_lifecycle) and the ash mass balance   *)
(* (calc_oil_ash_mass_g, calc_fuel_ash_mass_g, calc_dpf_ash_fill).         *)
(*                                                                         *)
(* Numbers.  A Python/numpy float is modelled as an exact fraction n/d in  *)
(* lowest terms (rounding is not modelled), extended by the IEEE specials  *)
(* that numpy arithmetic produces: d = 0 encodes +inf (n = 1), -inf        *)
(* (n = -1) and NaN (n = 0).  The flag np tells a numpy scalar (np.float64 *)
(* or np.int64) from a plain Python number: the two differ on division by  *)
(* zero (Python raises ZeroDivisionError, numpy returns inf or NaN and     *)
(* only warns), and an operation with one numpy operand yields a numpy     *)
(* scalar.                                                                 *)
(***************************************************************************)
EXTENDS Integers, Sequences, FiniteSets, TLC

VARIABLES pc, fn, args, mileages, records, ret

vars == <<pc, fn, args, mileages, records, ret>>

(***************************************************************************)
(* Bounds of the explored inputs.                                          *)
(***************************************************************************)
MaxKm == 2
MaxSweep == 2

(***************************************************************************)
(* Number layer.                                                           *)
(***************************************************************************)
Abs(x) == IF x < 0 THEN -x ELSE x

Sign(x) == IF x < 0 THEN -1 ELSE IF x > 0 THEN 1 ELSE 0

RECURSIVE GCD(_, _)
GCD(a, b) == IF b = 0 THEN a ELSE GCD(b, a % b)

\* the fraction n/d (d of any sign) in canonical form
Norm(np, n, d) ==
    IF d = 0 THEN [np |-> np, n |-> Sign(n), d |-> 0]
    ELSE LET g == GCD(Abs(n), Abs(d))
             s == Sign(d)
         IN  [np |-> np, n |-> (s * n) \div g, d |-> (s * d) \div g]

Py(n, d) == Norm(FALSE, n, d)
Np(n, d) == Norm(TRUE, n, d)
PyInt(n) == Py(n, 1)

IsNaN(x) == x.d = 0 /\ x.n = 0
IsFinite(x) == x.d # 0
IsZero(x) == x.d # 0 /\ x.n = 0

Neg(a) == [np |-> a.np, n |-> -a.n, d |-> a.d]

Add(a, b) ==
    IF a.d = 0 /\ b.d = 0
    THEN [np |-> a.np \/ b.np, n |-> (IF a.n = b.n THEN a.n ELSE 0), d |-> 0]
    ELSE Norm(a.np \/ b.np, a.n * b.d + b.n * a.d, a.d * b.d)

Sub(a, b) == Add(a, Neg(b))

Mul(a, b) == Norm(a.np \/ b.np, a.n * b.n, a.d * b.d)

\* Python's float / float raises on a zero divisor; with a numpy operand
\* the division is numpy's and returns inf or NaN
DivRaises(a, b) == IsZero(b) /\ ~a.np /\ ~b.np

Div(a, b) == Norm(a.np \/ b.np, a.n * b.d, a.d * b.n)

\* comparisons as Python evaluates them (every comparison with NaN is false)
Lt(a, b) ==
    /\ ~IsNaN(a) /\ ~IsNaN(b)
    /\ IF a.d = 0 /\ b.d = 0 THEN a.n < b.n ELSE a.n * b.d < b.n * a.d

Le(a, b) ==
    /\ ~IsNaN(a) /\ ~IsNaN(b)
    /\ IF a.d = 0 /\ b.d = 0 THEN a.n <= b.n ELSE a.n * b.d <= b.n * a.d

Eq(a, b) == ~IsNaN(a) /\ ~IsNaN(b) /\ a.n = b.n /\ a.d = b.d

\* builtin max(a, b): the first argument unless the second is greater
max(a, b) == IF Lt(a, b) THEN b ELSE a

\* a clip that forgets the upper limit
clip_mut(x, lo, hi) ==
    LET v == IF Lt(x, lo) THEN lo ELSE x
    IN  [np |-> TRUE, n |-> v.n, d |-> v.d]

\* np.clip(x, lo, hi) on a scalar: a numpy scalar min(max(x, lo), hi)
clip(x, lo, hi) ==
    LET v == IF Lt(x, lo) THEN lo ELSE IF Lt(hi, x) THEN hi ELSE x
    IN  [np |-> TRUE, n |-> v.n, d |-> v.d]

ZeroDivisionError == [exc |-> "ZeroDivisionError"]

IsRaise(r) == "exc" \in DOMAIN r

(***************************************************************************)
(* The explored inputs.  Callers pass plain Python numbers; the fields are *)
(* not validated by the code, so negative and out-of-range values occur.   *)
(***************************************************************************)
MileageVals == {PyInt(1000 * k) : k \in 0..MaxKm}
SpeedVals == {PyInt(-90), PyInt(-10), PyInt(0), PyInt(30), PyInt(60), PyInt(90)}
CityVals == {Py(-1, 2), PyInt(0), Py(1, 2), PyInt(1), PyInt(2)}
OilAshVals == {PyInt(-1), PyInt(0), PyInt(1)}
SulfurVals == {PyInt(-2000), PyInt(0), PyInt(500)}
RegenVals == {PyInt(400), PyInt(800)}

\* dataclass DPFInputs
DPFInputs(mileage, speed, city, oil_ash, sulfur, regen) ==
    [mileage_km |-> mileage, avg_speed_kmh |-> speed, city_ratio |-> city,
     oil_ash_content_pct |-> oil_ash, fuel_sulfur_ppm |-> sulfur,
     regen_interval_km |-> regen]

InputSet ==
    {DPFInputs(m, s, c, o, f, r) :
        m \in MileageVals, s \in SpeedVals, c \in CityVals,
        o \in OilAshVals, f \in SulfurVals, r \in RegenVals}

\* dataclass DPFParams with its default field values
DPFParams ==
    [dpf_capacity_units |-> PyInt(100),
     base_soot_rate_per_1000km |-> PyInt(1),
     ash_factor_per_pct_per_1000km |-> Py(1, 10),
     sulfur_factor_per_1000ppm |-> PyInt(1),
     low_speed_threshold_kmh |-> PyInt(60),
     low_speed_sensitivity |-> PyInt(1),
     city_sensitivity |-> Py(3, 2)]

\* the default parameters and overrides of one field each
ParamSet ==
    {DPFParams,
     [DPFParams EXCEPT !.dpf_capacity_units = PyInt(0)],
     [DPFParams EXCEPT !.dpf_capacity_units = PyInt(-100)],
     [DPFParams EXCEPT !.dpf_capacity_units = PyInt(1)],
     [DPFParams EXCEPT !.low_speed_threshold_kmh = PyInt(0)],
     [DPFParams EXCEPT !.low_speed_threshold_kmh = PyInt(-60)],
     [DPFParams EXCEPT !.low_speed_sensitivity = PyInt(-1)],
     [DPFParams EXCEPT !.low_speed_sensitivity = PyInt(0)],
     [DPFParams EXCEPT !.base_soot_rate_per_1000km = PyInt(-1)]}

(***************************************************************************)
(* predict_dpf_state, one operator per assignment of the function body.    *)
(***************************************************************************)
\* the division with its operands swapped
km_thousands_mut(inputs) == Div(PyInt(1000), inputs.mileage_km)

km_thousands(inputs) == Div(inputs.mileage_km, PyInt(1000))

soot_factor_city(inputs, params) ==
    Add(PyInt(1), Mul(params.city_sensitivity,
                      clip(inputs.city_ratio, PyInt(0), PyInt(1))))

\* the subtraction with its operands swapped
low_speed_delta_mut(inputs, params) ==
    max(PyInt(0), Sub(inputs.avg_speed_kmh, params.low_speed_threshold_kmh))

low_speed_delta(inputs, params) ==
    max(PyInt(0), Sub(params.low_speed_threshold_kmh, inputs.avg_speed_kmh))

speed_factor(inputs, params) ==
    Add(PyInt(1), Mul(params.low_speed_sensitivity,
                      Div(low_speed_delta(inputs, params),
                          params.low_speed_threshold_kmh)))

sulfur_factor(inputs, params) ==
    Add(PyInt(1), Mul(params.sulfur_factor_per_1000ppm,
                      Div(inputs.fuel_sulfur_ppm, PyInt(1000))))

soot_rate(inputs, params) ==
    Mul(Mul(Mul(params.base_soot_rate_per_1000km,
                soot_factor_city(inputs, params)),
            speed_factor(inputs, params)),
        sulfur_factor(inputs, params))

\* soot that is burnt off at every regeneration: only the distance since the
\* last one (at most regen_interval_km) counts
soot_load_mut(inputs, params) ==
    Mul(soot_rate(inputs, params),
        IF Lt(inputs.regen_interval_km, inputs.mileage_km)
        THEN Div(inputs.regen_interval_km, PyInt(1000))
        ELSE km_thousands(inputs))

soot_load(inputs, params) == Mul(soot_rate(inputs, params), km_thousands(inputs))

ash_rate(inputs, params) ==
    Mul(params.ash_factor_per_pct_per_1000km, inputs.oil_ash_content_pct)

\* the ash rate taken for the load, the mileage forgotten
ash_load_mut(inputs, params) == ash_rate(inputs, params)

ash_load(inputs, params) == Mul(ash_rate(inputs, params), km_thousands(inputs))

\* dataclass DPFState
DPFState(soot, ash, total_r, soot_r, ash_r) ==
    [soot_load |-> soot, ash_load |-> ash, total_ratio |-> total_r,
     soot_ratio |-> soot_r, ash_ratio |-> ash_r]

\* the function: the divisions of lines 54, 67 and 68 raise in this order
predict_dpf_state(inputs, params) ==
    LET cap == params.dpf_capacity_units
        soot == soot_load(inputs, params)
        ash == ash_load(inputs, params)
        soot_ratio == Div(soot, cap)
        ash_ratio == Div(ash, cap)
    IN  IF DivRaises(low_speed_delta(inputs, params),
                     params.low_speed_threshold_kmh)
        THEN ZeroDivisionError
        ELSE IF DivRaises(soot, cap) \/ DivRaises(ash, cap)
        THEN ZeroDivisionError
        ELSE DPFState(soot, ash, Add(soot_ratio, ash_ratio), soot_ratio, ash_ratio)

(***************************************************************************)
(* simulate_vehicle_lifecycle.                                             *)
(***************************************************************************)
\* ceil of a finite fraction
Ceil(x) == -((-x.n) \div x.d)

\* the checkpoints as plain Python numbers (a list built without numpy)
arange_mut(start, stop, step) ==
    LET len == Ceil(Div(Sub(stop, start), step))
    IN  [i \in 1..(IF len > 0 THEN len ELSE 0) |->
            Add(Py(start.n, start.d), Mul(PyInt(i - 1), step))]

\* np.arange(start, stop, step): ceil((stop - start) / step) numpy scalars
\* start + i * step
arange(start, stop, step) ==
    LET len == Ceil(Div(Sub(stop, start), step))
    IN  [i \in 1..(IF len > 0 THEN len ELSE 0) |->
            Add(Np(start.n, start.d), Mul(PyInt(i - 1), step))]

\* a row whose soot_ratio and ash_ratio are taken from each other's field
Row_mut(inp, state) ==
    [mileage_km |-> inp.mileage_km, avg_speed_kmh |-> inp.avg_speed_kmh,
     city_ratio |-> inp.city_ratio,
     oil_ash_content_pct |-> inp.oil_ash_content_pct,
     fuel_sulfur_ppm |-> inp.fuel_sulfur_ppm,
     regen_interval_km |-> inp.regen_interval_km,
     soot_load |-> state.soot_load, ash_load |-> state.ash_load,
     total_ratio |-> state.total_ratio, soot_ratio |-> state.ash_ratio,
     ash_ratio |-> state.soot_ratio]

\* the row of one checkpoint: asdict(inp) merged with the state's fields
Row(inp, state) ==
    [mileage_km |-> inp.mileage_km, avg_speed_kmh |-> inp.avg_speed_kmh,
     city_ratio |-> inp.city_ratio,
     oil_ash_content_pct |-> inp.oil_ash_content_pct,
     fuel_sulfur_ppm |-> inp.fuel_sulfur_ppm,
     regen_interval_km |-> inp.regen_interval_km,
     soot_load |-> state.soot_load, ash_load |-> state.ash_load,
     total_ratio |-> state.total_ratio, soot_ratio |-> state.soot_ratio,
     ash_ratio |-> state.ash_ratio]

\* the record built at the top of the loop body
LoopInputs(base_inputs, m) ==
    DPFInputs(m, base_inputs.avg_speed_kmh, base_inputs.city_ratio,
              base_inputs.oil_ash_content_pct, base_inputs.fuel_sulfur_ppm,
              base_inputs.regen_interval_km)

SweepBases ==
    {DPFInputs(PyInt(1000), s, c, o, f, r) :
        s \in {PyInt(-10), PyInt(30)}, c \in {Py(1, 2), PyInt(2)},
        o \in {PyInt(-1), PyInt(1)}, f \in {PyInt(-2000), PyInt(500)},
        r \in RegenVals}

MaxMileageVals == {PyInt(5000 * k) : k \in 0..MaxSweep} \cup {PyInt(7000)}
StepVals == {PyInt(2500), PyInt(5000)}

(***************************************************************************)
(* The ash mass balance.                                                   *)
(***************************************************************************)
\* dataclasses UsageProfile, OilSpec, FuelSpec (the name fields play no
\* part in the calculation and are left out)
ProfileSet ==
    {[mileage_km |-> PyInt(m), oil_consumption_l_per_1000km |-> o,
      fuel_consumption_l_per_100km |-> PyInt(f)] :
        m \in {0, 10000, -10000}, o \in {Py(1, 2), PyInt(0)}, f \in {6, 0}}

OilSet ==
    {[sulfated_ash_pct |-> a, density_kg_per_l |-> Py(17, 20)] :
        a \in {PyInt(1), Py(1, 2)}}

FuelSet ==
    {[sulfur_ppm |-> PyInt(p), density_kg_per_l |-> Py(21, 25)] :
        p \in {10, 5000}}

CapacityVals == {PyInt(120), PyInt(1), PyInt(0), PyInt(-120)}
AshFactorVals == {PyInt(3), PyInt(0)}

calc_oil_ash_mass_g(profile, oil) ==
    LET oil_liters == Mul(Div(profile.mileage_km, PyInt(1000)),
                          profile.oil_consumption_l_per_1000km)
        oil_mass_kg == Mul(oil_liters, oil.density_kg_per_l)
        ash_mass_kg == Mul(oil_mass_kg, Div(oil.sulfated_ash_pct, PyInt(100)))
    IN  Mul(ash_mass_kg, PyInt(1000))

calc_fuel_ash_mass_g(profile, fuel, sulfur_to_ash_factor) ==
    LET fuel_liters == Mul(Div(profile.mileage_km, PyInt(100)),
                           profile.fuel_consumption_l_per_100km)
        fuel_mass_kg == Mul(fuel_liters, fuel.density_kg_per_l)
        sulfur_mass_kg == Mul(fuel_mass_kg, Mul(fuel.sulfur_ppm, Py(1, 1000000)))
        ash_mass_kg == Mul(sulfur_mass_kg, sulfur_to_ash_factor)
    IN  Mul(ash_mass_kg, PyInt(1000))

\* a fill ratio clamped to 1.0
fill_ratio_of_mut(total_ash_g, dpf_capacity_ash_g) ==
    LET r == Div(total_ash_g, dpf_capacity_ash_g)
    IN  IF Lt(PyInt(1), r) THEN PyInt(1) ELSE r

\* fill_ratio = total_ash_g / dpf_capacity_ash_g (line 191)
fill_ratio_of(total_ash_g, dpf_capacity_ash_g) ==
    Div(total_ash_g, dpf_capacity_ash_g)

calc_dpf_ash_fill(profile, oil, fuel, dpf_capacity_ash_g, sulfur_to_ash_factor) ==
    LET oil_ash_g == calc_oil_ash_mass_g(profile, oil)
        fuel_ash_g == calc_fuel_ash_mass_g(profile, fuel, sulfur_to_ash_factor)
        total_ash_g == Add(oil_ash_g, fuel_ash_g)
        fill_ratio == fill_ratio_of(total_ash_g, dpf_capacity_ash_g)
        fill_percent == Mul(fill_ratio, PyInt(100))
    IN  IF DivRaises(total_ash_g, dpf_capacity_ash_g)
        THEN ZeroDivisionError
        ELSE [oil_ash_g |-> oil_ash_g, fuel_ash_g |-> fuel_ash_g,
              total_ash_g |-> total_ash_g,
              dpf_capacity_ash_g |-> dpf_capacity_ash_g,
              fill_ratio |-> fill_ratio, fill_percent |-> fill_percent]

(***************************************************************************)
(* The state machine: one call at a time.  fn names the function called,   *)
(* args its arguments, ret what it returned or raised; mileages and        *)
(* records are the locals of simulate_vehicle_lifecycle.                   *)
(***************************************************************************)
NoArgs == [none |-> TRUE]

Init ==
    /\ pc = "idle"
    /\ fn = "none"
    /\ args = NoArgs
    /\ mileages = <<>>
    /\ records = <<>>
    /\ ret = NoArgs

Outcome(r) == IF IsRaise(r) THEN "raised" ELSE "done"

CallPredict ==
    /\ pc = "idle"
    /\ \E inputs \in InputSet, params \in ParamSet :
          /\ fn' = "predict_dpf_state"
          /\ args' = [inputs |-> inputs, params |-> params]
          /\ ret' = predict_dpf_state(inputs, params)
          /\ pc' = Outcome(ret')
    /\ UNCHANGED <<mileages, records>>

CallSweep ==
    /\ pc = "idle"
    /\ \E base_inputs \in SweepBases, max_mileage_km \in MaxMileageVals,
          step_km \in StepVals, params \in ParamSet :
          /\ fn' = "simulate_vehicle_lifecycle"
          /\ args' = [base_inputs |-> base_inputs,
                      max_mileage_km |-> max_mileage_km,
                      step_km |-> step_km, params |-> params]
          /\ mileages' = arange(PyInt(0), Add(max_mileage_km, step_km), step_km)
    /\ records' = <<>>
    /\ pc' = "loop"
    /\ UNCHANGED ret

\* one iteration of the for loop, for the next unprocessed mileage
SweepIter ==
    /\ pc = "loop"
    /\ Len(records) < Len(mileages)
    /\ LET m == mileages[Len(records) + 1]
           inp == LoopInputs(args.base_inputs, m)
           state == predict_dpf_state(inp, args.params)
       IN  \/ /\ IsRaise(state)
              /\ ret' = state
              /\ pc' = "raised"
              /\ UNCHANGED records
           \/ /\ ~IsRaise(state)
              /\ records' = Append(records, Row(inp, state))
              /\ UNCHANGED <<pc, ret>>
    /\ UNCHANGED <<fn, args, mileages>>

\* the loop is exhausted: return pd.DataFrame(records)
SweepReturn ==
    /\ pc = "loop"
    /\ Len(records) = Len(mileages)
    /\ ret' = records
    /\ pc' = "done"
    /\ UNCHANGED <<fn, args, mileages, records>>

CallAshFill ==
    /\ pc = "idle"
    /\ \E profile \in ProfileSet, oil \in OilSet, fuel \in FuelSet,
          dpf_capacity_ash_g \in CapacityVals,
          sulfur_to_ash_factor \in AshFactorVals :
          /\ fn' = "calc_dpf_ash_fill"
          /\ args' = [profile |-> profile, oil |-> oil, fuel |-> fuel,
                      dpf_capacity_ash_g |-> dpf_capacity_ash_g,
                      sulfur_to_ash_factor |-> sulfur_to_ash_factor]
          /\ ret' = calc_dpf_ash_fill(profile, oil, fuel, dpf_capacity_ash_g,
                                      sulfur_to_ash_factor)
          /\ pc' = Outcome(ret')
    /\ UNCHANGED <<mileages, records>>

\* the caller takes the result (or the exception); the frame is gone
Finish ==
    /\ pc \in {"done", "raised"}
    /\ pc' = "idle"
    /\ fn' = "none"
    /\ args' = NoArgs
    /\ mileages' = <<>>
    /\ records' = <<>>
    /\ ret' = NoArgs

Next ==
    \/ CallPredict
    \/ CallSweep
    \/ SweepIter
    \/ SweepReturn
    \/ CallAshFill
    \/ Finish

Spec == Init /\ [][Next]_vars

(***************************************************************************)
(* Properties.                                                             *)
(***************************************************************************)
PredictCalled == fn = "predict_dpf_state" /\ pc \in {"done", "raised"}
PredictReturned == fn = "predict_dpf_state" /\ pc = "done"
InSweep == fn = "simulate_vehicle_lifecycle"
SweepReturned == InSweep /\ pc = "done"
FillReturned == fn = "calc_dpf_ash_fill" /\ pc = "done"

LoadFields == {"soot_load", "ash_load", "soot_ratio", "ash_ratio", "total_ratio"}
CopiedFields == {"avg_speed_kmh", "city_ratio", "oil_ash_content_pct",
                 "fuel_sulfur_ppm", "regen_interval_km"}

\* C1: for max_mileage_km >= 0 and step_km > 0 the returned rows are at
\* 0, step_km, 2*step_km, ...: the first at 0, consecutive rows step_km
\* apart, none beyond max_mileage_km, and one at max_mileage_km.
C1_Checkpoints ==
    (SweepReturned /\ Le(PyInt(0), args.max_mileage_km)
                   /\ Lt(PyInt(0), args.step_km)) =>
        /\ Len(ret) >= 1
        /\ IsZero(ret[1].mileage_km)
        /\ \A i \in 1..(Len(ret) - 1) :
              Eq(Sub(ret[i + 1].mileage_km, ret[i].mileage_km), args.step_km)
        /\ \A i \in 1..Len(ret) : Le(ret[i].mileage_km, args.max_mileage_km)
        /\ \E i \in 1..Len(ret) : Eq(ret[i].mileage_km, args.max_mileage_km)

\* the rows built so far are the checkpoints' inputs and direct predictions
C2_Rows ==
    (InSweep /\ pc \in {"loop", "done"}) =>
        /\ \A i \in 1..Len(records) :
              LET row == records[i]
                  direct == predict_dpf_state(
                                [args.base_inputs EXCEPT !.mileage_km = row.mileage_km],
                                args.params)
              IN  /\ row.mileage_km = mileages[i]
                  /\ \A f \in CopiedFields : row[f] = args.base_inputs[f]
                  /\ ~IsRaise(direct)
                  /\ \A f \in LoadFields : row[f] = direct[f]
        /\ pc = "done" => ret = records

\* C2: every row of the sweep carries the base input's fields other than
\* mileage_km unchanged and the load fields of a direct predict_dpf_state
\* call at the row's mileage; the sweep leaves the base input unchanged.
C2_RowsMatchPredict ==
    /\ []C2_Rows
    /\ [][pc = "loop" => args' = args]_vars

C2_Witness ==
    /\ SweepReturned
    /\ Len(ret) >= 3
    /\ ret[3].mileage_km # args.base_inputs.mileage_km
    /\ IsFinite(ret[3].total_ratio) /\ ~IsZero(ret[3].total_ratio)

AllZero(r) == \A f \in LoadFields : IsZero(r[f])

\* C3 as stated: with mileage_km = 0 every LoadState predict_dpf_state
\* returns has soot_load, ash_load and the three ratios equal to 0, whatever
\* the other input fields and the parameters are (rows of the sweep
\* included: each is the result of one predict_dpf_state call).
C3_Original ==
    /\ (PredictReturned /\ IsZero(args.inputs.mileage_km)) => AllZero(ret)
    /\ InSweep =>
          \A i \in 1..Len(records) :
              IsZero(records[i].mileage_km) => AllZero(records[i])

\* C3 amended: with mileage_km = 0 every LoadState predict_dpf_state returns
\* has soot_load = ash_load = 0, and the three ratios equal to 0 provided
\* dpf_capacity_units is not zero.
C3_ZeroMileage ==
    /\ (PredictReturned /\ IsZero(args.inputs.mileage_km)) =>
          /\ IsZero(ret.soot_load) /\ IsZero(ret.ash_load)
          /\ ~IsZero(args.params.dpf_capacity_units) => AllZero(ret)
    /\ InSweep =>
          \A i \in 1..Len(records) :
              IsZero(records[i].mileage_km) =>
                  /\ IsZero(records[i].soot_load) /\ IsZero(records[i].ash_load)
                  /\ ~IsZero(args.params.dpf_capacity_units) => AllZero(records[i])

C3_Witness ==
    /\ PredictReturned
    /\ IsZero(args.inputs.mileage_km)
    /\ ~IsZero(soot_rate(args.inputs, args.params))
    /\ ~IsZero(ash_rate(args.inputs, args.params))
    /\ AllZero(ret)

\* C4: city_ratio is clamped to [0,1]: a call with city_ratio > 1 has the
\* outcome of the same call with city_ratio = 1, one with city_ratio < 0 the
\* outcome of the same call with city_ratio = 0.
C4_CityClamped ==
    PredictCalled =>
        LET c == args.inputs.city_ratio
        IN  /\ Lt(PyInt(1), c) =>
                 ret = predict_dpf_state(
                           [args.inputs EXCEPT !.city_ratio = PyInt(1)], args.params)
            /\ Lt(c, PyInt(0)) =>
                 ret = predict_dpf_state(
                           [args.inputs EXCEPT !.city_ratio = PyInt(0)], args.params)

C4_Witness ==
    /\ PredictReturned
    /\ args.inputs.city_ratio = PyInt(2)
    /\ Lt(PyInt(0), ret.soot_load)

\* the results of the call with a larger mileage are nowhere smaller
MileageMonotone ==
    \A m2 \in MileageVals :
        Le(args.inputs.mileage_km, m2) =>
            LET r2 == predict_dpf_state(
                          [args.inputs EXCEPT !.mileage_km = m2], args.params)
            IN  /\ ~IsRaise(r2)
                /\ \A f \in LoadFields : Le(ret[f], r2[f])

RowsMonotone ==
    \A i \in 1..(Len(records) - 1) :
        \A f \in LoadFields : Le(records[i][f], records[i + 1][f])

\* C5 as stated: for any inputs and parameters, a larger mileage_km never
\* gives a smaller soot_load, ash_load or ratio, and the rows of the sweep
\* never decrease in these fields.
C5_Original ==
    /\ PredictReturned => MileageMonotone
    /\ InSweep => RowsMonotone

\* C5 amended: the same, provided dpf_capacity_units > 0 and the soot and
\* ash rates per 1000 km are not negative.
C5_MileageMonotone ==
    /\ (/\ PredictReturned
        /\ Lt(PyInt(0), args.params.dpf_capacity_units)
        /\ Le(PyInt(0), soot_rate(args.inputs, args.params))
        /\ Le(PyInt(0), ash_rate(args.inputs, args.params))) => MileageMonotone
    /\ (/\ InSweep /\ pc \in {"loop", "done"}
        /\ Lt(PyInt(0), args.params.dpf_capacity_units)
        /\ Le(PyInt(0), soot_rate(args.base_inputs, args.params))
        /\ Le(PyInt(0), ash_rate(args.base_inputs, args.params))) => RowsMonotone

C5_Witness ==
    /\ SweepReturned
    /\ Lt(PyInt(0), args.params.dpf_capacity_units)
    /\ Le(PyInt(0), soot_rate(args.base_inputs, args.params))
    /\ Le(PyInt(0), ash_rate(args.base_inputs, args.params))
    /\ Len(ret) >= 3
    /\ Lt(ret[2].total_ratio, ret[3].total_ratio)
    /\ Lt(ret[2].ash_load, ret[3].ash_load)

\* the soot load of the call with a higher speed is nowhere larger
SpeedMonotone ==
    \A s2 \in SpeedVals :
        Le(args.inputs.avg_speed_kmh, s2) =>
            LET r2 == predict_dpf_state(
                          [args.inputs EXCEPT !.avg_speed_kmh = s2], args.params)
            IN  /\ ~IsRaise(r2)
                /\ Le(r2.soot_load, ret.soot_load)

BelowThreshold ==
    Lt(args.inputs.avg_speed_kmh, args.params.low_speed_threshold_kmh)

\* the part of soot_load that does not depend on the speed
SpeedFreeLoad ==
    Mul(Mul(Mul(args.params.base_soot_rate_per_1000km,
                soot_factor_city(args.inputs, args.params)),
            sulfur_factor(args.inputs, args.params)),
        km_thousands(args.inputs))

\* C6 as stated: for any inputs and parameters, of two speeds s1 <= s2 with
\* s1 below the threshold, the lower speed s1 has the soot_load that is
\* greater or equal.
C6_Original == (PredictReturned /\ BelowThreshold) => SpeedMonotone

\* C6 amended: the same, provided low_speed_threshold_kmh > 0,
\* low_speed_sensitivity >= 0 and the product of the other factors of
\* soot_load (base rate, city factor, sulfur factor, mileage) is not negative.
C6_SpeedMonotone ==
    (/\ PredictReturned /\ BelowThreshold
     /\ Lt(PyInt(0), args.params.low_speed_threshold_kmh)
     /\ Le(PyInt(0), args.params.low_speed_sensitivity)
     /\ Le(PyInt(0), SpeedFreeLoad)) => SpeedMonotone

C6_Witness ==
    /\ PredictReturned
    /\ args.inputs.avg_speed_kmh = PyInt(30)
    /\ Lt(PyInt(0), args.params.low_speed_threshold_kmh)
    /\ Le(PyInt(0), args.params.low_speed_sensitivity)
    /\ Lt(PyInt(0), SpeedFreeLoad)
    /\ Lt(predict_dpf_state([args.inputs EXCEPT !.avg_speed_kmh = PyInt(90)],
                            args.params).soot_load,
          ret.soot_load)

\* C7: for a non-zero capacity the record of calc_dpf_ash_fill holds the two
\* ash masses of calc_oil_ash_mass_g and calc_fuel_ash_mass_g, their sum,
\* the capacity as given, fill_ratio = total_ash_g / dpf_capacity_ash_g and
\* fill_percent = fill_ratio * 100, neither of them clamped.
C7_AshFill ==
    (fn = "calc_dpf_ash_fill" /\ ~IsZero(args.dpf_capacity_ash_g)) =>
        /\ pc = "done"
        /\ ret.oil_ash_g = calc_oil_ash_mass_g(args.profile, args.oil)
        /\ ret.fuel_ash_g = calc_fuel_ash_mass_g(args.profile, args.fuel,
                                                 args.sulfur_to_ash_factor)
        /\ ret.total_ash_g = Add(ret.oil_ash_g, ret.fuel_ash_g)
        /\ ret.dpf_capacity_ash_g = args.dpf_capacity_ash_g
        /\ Mul(ret.fill_ratio, args.dpf_capacity_ash_g) = ret.total_ash_g
        /\ ret.fill_percent = Mul(ret.fill_ratio, PyInt(100))

C7_Witness ==
    /\ FillReturned
    /\ Lt(PyInt(1), ret.fill_ratio)
    /\ Lt(PyInt(100), ret.fill_percent)
    /\ Lt(PyInt(0), ret.oil_ash_g) /\ Lt(PyInt(0), ret.fuel_ash_g)

FiniteRatios(r) ==
    IsFinite(r.soot_ratio) /\ IsFinite(r.ash_ratio) /\ IsFinite(r.total_ratio)

NonFiniteRatios(r) ==
    ~IsFinite(r.soot_ratio) /\ ~IsFinite(r.ash_ratio) /\ ~IsFinite(r.total_ratio)

C9_SpeedFactorBounded ==
    (PredictCalled /\ Lt(PyInt(0), args.params.low_speed_threshold_kmh)
                   /\ Le(PyInt(0), args.params.low_speed_sensitivity)) =>
        LET top == Add(PyInt(1), args.params.low_speed_sensitivity)
            sf == speed_factor(args.inputs, args.params)
        IN  /\ Le(PyInt(1), sf) /\ Le(sf, top)
            /\ Lt(args.inputs.avg_speed_kmh, PyInt(0)) =>
                  /\ Eq(low_speed_delta(args.inputs, args.params),
                        args.params.low_speed_threshold_kmh)
                  /\ Eq(sf, top)
                  /\ ret = predict_dpf_state(
                               [args.inputs EXCEPT !.avg_speed_kmh = PyInt(0)],
                               args.params)

OtherRegenVals == RegenVals \cup {PyInt(0), PyInt(-400), PyInt(300000)}

\* C10: regen_interval_km has no influence: a call that differs only in
\* regen_interval_km has the same outcome, and the rows of a sweep have the
\* load fields of the sweep of any other regen_interval_km (grown from the
\* soot rate over the whole mileage, never reset); the rows only copy the
\* field.
C10_RegenUnused ==
    /\ PredictCalled =>
          \A r \in OtherRegenVals :
              ret = predict_dpf_state(
                        [args.inputs EXCEPT !.regen_interval_km = r], args.params)
    /\ (InSweep /\ pc \in {"loop", "done"}) =>
          \A i \in 1..Len(records) :
              /\ records[i].regen_interval_km = args.base_inputs.regen_interval_km
              /\ records[i].soot_load =
                    Mul(soot_rate(args.base_inputs, args.params),
                        Div(mileages[i], PyInt(1000)))
              /\ \A r \in OtherRegenVals :
                    LET other == predict_dpf_state(
                                     [args.base_inputs EXCEPT
                                          !.regen_interval_km = r,
                                          !.mileage_km = mileages[i]],
                                     args.params)
                    IN  \A f \in LoadFields : records[i][f] = other[f]

C10_Witness ==
    /\ SweepReturned
    /\ Len(ret) >= 3
    /\ Lt(args.base_inputs.regen_interval_km, ret[2].mileage_km)
    /\ Lt(PyInt(0), ret[2].soot_load)
    /\ Lt(ret[2].soot_load, ret[3].soot_load)

====
